---- MODULE Spec2Model ----
(***************************************************************************)
(* Model of the Gambling Harm Visualiser web client: the data library      *)
(* (lib/data: normalizeName, aggregateByLgaWithMapping,                    *)
(* mergeMetricsIntoGeoJSON, parseFile) and the App component's handlers    *)
(* (loadBase, onUpload, the column-mapping onChange handlers, process).    *)
(*                                                                         *)
(* JavaScript strings that the code inspects are sequences of one-         *)
(* character strings; status texts, which the code only assigns, are TLA+  *)
(* strings.  JavaScript objects are insertion-ordered sequences of         *)
(* [k, v] entries.                                                         *)
(***************************************************************************)
EXTENDS Integers, Sequences, FiniteSets, TLC

VARIABLES
    nIn,        \* normalizeName: the argument
    nOut,       \* normalizeName: the returned string
    nPc,        \* "idle" | "ready" | "done"
    aIn,        \* aggregateByLgaWithMapping: the argument files
    aOut,       \* aggregateByLgaWithMapping: the returned list
    aPc,        \* "idle" | "ready" | "done"
    mGeo,       \* mergeMetricsIntoGeoJSON: the argument geo, as passed
    mAgg,       \* mergeMetricsIntoGeoJSON: the argument agg
    mOut,       \* mergeMetricsIntoGeoJSON: the returned (mutated) collection
    mVia,       \* per feature, the statement that assigned its final key
    mPc,        \* "idle" | "ready" | "done"
    app,        \* which App component runs: "web" (visualiser-web) | "root"
    baseGeo,    \* App state baseGeo: [loaded, geo]
    fileMaps,   \* App state fileMaps
    procMaps,   \* the fileMaps captured by the memoized `process` callback
    status,     \* App state status
    enriched,   \* App state enriched: [set, geo]
    metric,     \* App state metric
    uploads,    \* the number of onUpload calls awaiting Promise.all
    loading,    \* loadBase calls awaiting fetch
    aggIn,      \* the last call of process: [called, files] handed to the aggregation
    lastOp,     \* the outcome of the handler step taken last, where a claim names it
    dRows,      \* column detection: the argument rows
    dLga,       \* detectLgaColumn: the returned column, or null
    dVals,      \* detectValueColumns: the returned columns
    dSeed,      \* onUpload: the mapping seeded for the rows
    dDone       \* which of "lga", "values", "seed" have been computed

normVars == <<nIn, nOut, nPc>>

aggVars == <<aIn, aOut, aPc>>

mergeVars == <<mGeo, mAgg, mOut, mVia, mPc>>

appVars ==
    <<app, baseGeo, fileMaps, procMaps, status, enriched, metric, uploads, loading,
      aggIn, lastOp>>

detectVars == <<dRows, dLga, dVals, dSeed, dDone>>

vars ==
    <<nIn, nOut, nPc, aIn, aOut, aPc, mGeo, mAgg, mOut, mVia, mPc,
      app, baseGeo, fileMaps, procMaps, status, enriched, metric, uploads, loading,
      aggIn, lastOp, dRows, dLga, dVals, dSeed, dDone>>

----------------------------------------------------------------------------
(* Bounds of the model. *)

\* longest generated argument of normalizeName
MaxLen == 3

\* most files in one argument of aggregateByLgaWithMapping
MaxFiles == 2

\* most files aggregated into the agg argument of mergeMetricsIntoGeoJSON
MaxMergeFiles == 1

\* most features of a collection
MaxFeatures == 2

\* most files chosen in one upload
MaxUploadFiles == 1

\* most onUpload calls awaiting their files at once
MaxPendingUploads == 1

\* most loadBase calls awaiting their fetch at once
MaxPendingLoads == 1

\* most columns of a row of a generated table
MaxCols == 2

\* most rows of a generated table
MaxRows == 2

----------------------------------------------------------------------------
(* JavaScript values: null, undefined, numbers (finite integers and NaN),  *)
(* strings.                                                                *)

JsNull == [t |-> "null", v |-> 0, s |-> <<>>]

JsUndefined == [t |-> "undefined", v |-> 0, s |-> <<>>]

JsNaN == [t |-> "nan", v |-> 0, s |-> <<>>]

JsNum(n) == [t |-> "number", v |-> n, s |-> <<>>]

JsStr(str) == [t |-> "string", v |-> 0, s |-> str]

Lower == <<"a","b","c","d","e","f","g","h","i","j","k","l","m",
           "n","o","p","q","r","s","t","u","v","w","x","y","z">>

Upper == <<"A","B","C","D","E","F","G","H","I","J","K","L","M",
           "N","O","P","Q","R","S","T","U","V","W","X","Y","Z">>

Digits == <<"0","1","2","3","4","5","6","7","8","9">>

\* the characters String.prototype.trim removes, among those of the model
WhiteSpace == {" ", "\t"}

Range(f) == {f[i] : i \in DOMAIN f}

RECURSIVE SeqsUpTo(_, _)
\* the sequences over S of length at most n
SeqsUpTo(S, n) ==
    IF n = 0 THEN {<<>>}
    ELSE LET shorter == SeqsUpTo(S, n - 1)
         IN  shorter \cup {Append(q, c) : q \in shorter, c \in S}

UpperOf == [ch \in Range(Lower) |-> Upper[CHOOSE i \in DOMAIN Lower : Lower[i] = ch]]

\* String.prototype.toUpperCase, one character (ASCII letters)
UpperChar(ch) == IF ch \in DOMAIN UpperOf THEN UpperOf[ch] ELSE ch

toUpperCase(str) == [i \in DOMAIN str |-> UpperChar(str[i])]

\* String.prototype.trim
trim(str) ==
    LET keep == {i \in DOMAIN str : str[i] \notin WhiteSpace}
    IN  IF keep = {} THEN <<>>
        ELSE LET lo == CHOOSE i \in keep : \A j \in keep : i <= j
                 hi == CHOOSE i \in keep : \A j \in keep : j <= i
             IN  SubSeq(str, lo, hi)

RECURSIVE NatToString(_)
\* String(n) of a natural number
NatToString(n) ==
    IF n < 10 THEN <<Digits[n + 1]>>
    ELSE NatToString(n \div 10) \o <<Digits[(n % 10) + 1]>>

\* String(x) of a value
String(x) ==
    CASE x.t = "string"    -> x.s
      [] x.t = "number"    -> IF x.v < 0 THEN <<"-">> \o NatToString(-x.v)
                              ELSE NatToString(x.v)
      [] x.t = "nan"       -> <<"N","a","N">>
      [] x.t = "null"      -> <<"n","u","l","l">>
      [] x.t = "undefined" -> <<"u","n","d","e","f","i","n","e","d">>

KeyChars == Range(Upper) \cup Range(Digits) \cup {" "}

\* the test /[A-Z0-9 ]/ on one character
KeyChar(ch) == ch \in KeyChars

\* the variant that leaves out toUpperCase
normalizeNameNoUpper(x) ==
    IF x.t \in {"null", "undefined"} THEN <<>>
    ELSE trim(SelectSeq(String(x), KeyChar))

\* the variant that trims before it filters
normalizeNameTrimFirst(x) ==
    IF x.t \in {"null", "undefined"} THEN <<>>
    ELSE SelectSeq(trim(toUpperCase(String(x))), KeyChar)

\* normalizeName(s)
normalizeName(x) ==
    IF x.t \in {"null", "undefined"} THEN <<>>
    ELSE trim(SelectSeq(toUpperCase(String(x)), KeyChar))

----------------------------------------------------------------------------
(* Objects: insertion-ordered sequences of entries [k |-> key, v |-> value]. *)

HasKey(obj, key) == \E i \in DOMAIN obj : obj[i].k = key

\* obj[key]; undefined when the key is absent
Get(obj, key) ==
    IF HasKey(obj, key)
    THEN obj[CHOOSE i \in DOMAIN obj : obj[i].k = key].v
    ELSE JsUndefined

\* obj[key] = val
Put(obj, key, val) ==
    IF HasKey(obj, key)
    THEN [i \in DOMAIN obj |-> IF obj[i].k = key THEN [k |-> key, v |-> val] ELSE obj[i]]
    ELSE Append(obj, [k |-> key, v |-> val])

\* Object.keys(obj)
Keys(obj) == [i \in DOMAIN obj |-> obj[i].k]

RECURSIVE ObjectAssign(_, _)
\* Object.assign(target, source)
ObjectAssign(target, source) ==
    IF source = <<>> THEN target
    ELSE ObjectAssign(Put(target, Head(source).k, Head(source).v), Tail(source))

\* the truthiness of a value
Truthy(x) ==
    CASE x.t = "string" -> x.s # <<>>
      [] x.t = "number" -> x.v # 0
      [] OTHER          -> FALSE

DigitOf == [ch \in Range(Digits) |-> CHOOSE d \in 0..9 : Digits[d + 1] = ch]

RECURSIVE DigitsValue(_)
\* the value of a non-empty string of decimal digits
DigitsValue(str) ==
    IF str = <<>> THEN 0
    ELSE 10 * DigitsValue(SubSeq(str, 1, Len(str) - 1))
         + DigitOf[str[Len(str)]]

DigitChars == Range(Digits)

IsDigits(str) == str # <<>> /\ \A i \in DOMAIN str : str[i] \in DigitChars

\* Number(x), on the values of the model: a string is a number when, trimmed,
\* it is empty (0) or an optionally signed string of decimal digits
Number(x) ==
    CASE x.t = "number"    -> x
      [] x.t = "nan"       -> JsNaN
      [] x.t = "null"      -> JsNum(0)
      [] x.t = "undefined" -> JsNaN
      [] x.t = "string"    ->
            LET str == trim(x.s)
            IN  IF str = <<>> THEN JsNum(0)
                ELSE IF IsDigits(str) THEN JsNum(DigitsValue(str))
                ELSE IF Head(str) = "-" /\ IsDigits(Tail(str))
                     THEN JsNum(-DigitsValue(Tail(str)))
                ELSE JsNaN

\* Number.isFinite(x)
IsFinite(x) == x.t = "number"

\* the key `metric_${idx+1}` of the value column at 1-based position pos
MetricKey(pos) == <<"m","e","t","r","i","c","_">> \o NatToString(pos)

----------------------------------------------------------------------------
(* aggregateByLgaWithMapping.  The Map is a sequence of buckets            *)
(* [key, name, metrics] in insertion order.                                *)

MapHas(map, key) == \E i \in DOMAIN map : map[i].key = key

MapGet(map, key) == map[CHOOSE i \in DOMAIN map : map[i].key = key]

\* map.set(key, cur): an existing key keeps its place
MapSet(map, key, cur) ==
    IF MapHas(map, key)
    THEN [i \in DOMAIN map |-> IF map[i].key = key THEN cur ELSE map[i]]
    ELSE Append(map, cur)

\* the variant that names the metric after the column's header
SlotKeyByHeader(valueCols, pos) == <<"m","e","t","r","i","c","_">> \o valueCols[pos]

\* the metrics key that the value column at position pos accumulates into
SlotKey(valueCols, pos) == MetricKey(pos)

\* the variant that stores the cell instead of adding it to the running sum
AddCellOverwrite(metrics, row, valueCols, pos) ==
    LET k == SlotKey(valueCols, pos)
        v == Number(Get(row, valueCols[pos]))
    IN  IF IsFinite(v) THEN Put(metrics, k, v) ELSE metrics

\* one iteration of f.valueCols.forEach
AddCell(metrics, row, valueCols, pos) ==
    LET k == SlotKey(valueCols, pos)
        v == Number(Get(row, valueCols[pos]))
    IN  IF IsFinite(v)
        THEN Put(metrics, k,
                 JsNum((IF HasKey(metrics, k) THEN Get(metrics, k).v ELSE 0) + v.v))
        ELSE metrics

RECURSIVE AddCells(_, _, _, _)
\* f.valueCols.forEach(...), from position pos on
AddCells(metrics, row, valueCols, pos) ==
    IF pos > Len(valueCols) THEN metrics
    ELSE AddCells(AddCell(metrics, row, valueCols, pos), row, valueCols, pos + 1)

\* the body of `for (const r of f.rows)`
AddRow(map, f, row) ==
    LET raw  == Get(row, f.lgaCol.s)
        name == IF raw.t \in {"null", "undefined"} THEN <<>> ELSE trim(String(raw))
    IN  IF name = <<>> THEN map
        ELSE LET key == normalizeName(JsStr(name))
                 cur == IF MapHas(map, key) THEN MapGet(map, key)
                        ELSE [key |-> key, name |-> name, metrics |-> <<>>]
             IN  MapSet(map, key,
                        [cur EXCEPT !.metrics = AddCells(cur.metrics, row, f.valueCols, 1)])

RECURSIVE AddRows(_, _, _)
AddRows(map, f, rows) ==
    IF rows = <<>> THEN map
    ELSE AddRows(AddRow(map, f, Head(rows)), f, Tail(rows))

\* the body of `for (const f of files)`
AddFile(map, f) ==
    IF ~Truthy(f.lgaCol) \/ Len(f.valueCols) = 0 THEN map
    ELSE AddRows(map, f, f.rows)

RECURSIVE AddFiles(_, _)
AddFiles(map, files) ==
    IF files = <<>> THEN map
    ELSE AddFiles(AddFile(map, Head(files)), Tail(files))

aggregateByLgaWithMapping(files) == AddFiles(<<>>, files)

----------------------------------------------------------------------------
(* mergeMetricsIntoGeoJSON.  A feature is [hasProps, properties]: hasProps *)
(* is FALSE while f.properties is null; the geometry, which the code never *)
(* reads, is left out.  A collection is [features, properties].            *)

K_LGA_NAME == <<"L","G","A","_","N","A","M","E">>

K_LGA_NAME_2021 == <<"L","G","A","_","N","A","M","E","_","2","0","2","1">>

K_LGA_NAME_2016 == <<"L","G","A","_","N","A","M","E","_","2","0","1","6">>

K_lga_name == <<"l","g","a","_","n","a","m","e">>

K_NAME == <<"N","A","M","E">>

K_name == <<"n","a","m","e">>

K_lga == <<"l","g","a">>

K_attached_count ==
    <<"_","a","t","t","a","c","h","e","d","_","c","o","u","n","t">>

K_total_features ==
    <<"_","t","o","t","a","l","_","f","e","a","t","u","r","e","s">>

nameFields ==
    <<K_LGA_NAME, K_LGA_NAME_2021, K_LGA_NAME_2016, K_lga_name, K_NAME, K_name, K_lga>>

\* new Map(agg.map(a => [a.key, a])).get(key): the last entry of a key wins
LookupHas(agg, key) == \E i \in DOMAIN agg : agg[i].key = key

LookupGet(agg, key) ==
    agg[CHOOSE i \in DOMAIN agg :
            agg[i].key = key /\ \A j \in DOMAIN agg : agg[j].key = key => j <= i]

\* the name fields, in order, whose property is truthy
TruthyFields(props) == {i \in DOMAIN nameFields : Truthy(Get(props, nameFields[i]))}

\* the key after the loop over nameFields: null, or the normalized first truthy field
LoopKey(props) ==
    IF TruthyFields(props) = {} THEN JsNull
    ELSE LET first == CHOOSE i \in TruthyFields(props) : \A j \in TruthyFields(props) : i <= j
         IN  JsStr(normalizeName(Get(props, nameFields[first])))

\* whether `if (!key && props['name'])` assigns the key
UsesFallback(props) == ~Truthy(LoopKey(props)) /\ Truthy(Get(props, K_name))

\* the key the lookup is made with; falsy when the feature is skipped
FeatureKey(props) ==
    IF UsesFallback(props) THEN JsStr(normalizeName(Get(props, K_name)))
    ELSE LoopKey(props)

\* the statement that assigned the final key of a feature
KeyVia(props) ==
    IF UsesFallback(props) THEN [by |-> "fallback", field |-> K_name]
    ELSE IF TruthyFields(props) = {} THEN [by |-> "none", field |-> <<>>]
    ELSE [by |-> "nameFields",
          field |-> nameFields[CHOOSE i \in TruthyFields(props) :
                                  \A j \in TruthyFields(props) : i <= j]]

\* whether the feature gets a hit in the lookup
IsHit(props, agg) ==
    Truthy(FeatureKey(props)) /\ LookupHas(agg, FeatureKey(props).s)

\* whether a hit adds one to `attached`
CountsAsAttached(props, agg) == IsHit(props, agg)

\* f.properties || {}
PropsOf(f) == IF f.hasProps THEN f.properties ELSE <<>>

\* the body of `for (const f of geo.features)`: the feature afterwards
MergeFeature(f, agg) ==
    LET props == PropsOf(f)
    IN  [hasProps |-> TRUE,
         properties |->
            IF IsHit(props, agg)
            THEN ObjectAssign(props, LookupGet(agg, FeatureKey(props).s).metrics)
            ELSE props]

mergeMetricsIntoGeoJSON(geo, agg) ==
    LET attached == Cardinality({i \in DOMAIN geo.features :
                                    CountsAsAttached(PropsOf(geo.features[i]), agg)})
    IN  [features |-> [i \in DOMAIN geo.features |-> MergeFeature(geo.features[i], agg)],
         properties |-> <<[k |-> K_attached_count, v |-> JsNum(attached)],
                          [k |-> K_total_features, v |-> JsNum(Len(geo.features))]>>]

EmptyGeo == [features |-> <<>>, properties |-> <<>>]

----------------------------------------------------------------------------
(* The tables, column names and region names the checks draw from. *)

ColLga == <<"L","G","A">>

ColExp == <<"E","x","p">>

ColNet == <<"N","e","t">>

Melbourne == <<"M","e","l","b","o","u","r","n","e">>

MELBOURNE == <<"M","E","L","B","O","U","R","N","E">>

Yarra == <<"Y","a","r","r","a">>

YARRA == <<"Y","A","R","R","A">>

\* " yarra!"
YarraNoisy == <<" ","y","a","r","r","a","!">>

\* "!!": not blank, and normalizes to the empty key
Bangs == <<"!","!">>

\* "N/A"
NotAvailable == <<"N","/","A">>

Row3(lga, exp, net) ==
    <<[k |-> ColLga, v |-> lga], [k |-> ColExp, v |-> exp], [k |-> ColNet, v |-> net]>>

\* a sheet with number cells
RowsNumeric ==
    << Row3(JsStr(Melbourne), JsNum(10), JsNum(1)),
       Row3(JsStr(MELBOURNE), JsNum(5), JsNum(2)) >>

\* a CSV: every cell is a string, an empty cell the empty string
RowsText ==
    << Row3(JsStr(Yarra), JsStr(<<"7">>), JsStr(NotAvailable)),
       Row3(JsStr(YarraNoisy), JsStr(<<>>), JsStr(<<"3">>)) >>

\* a sheet with missing, null, NaN, blank and non-numeric cells and unusable names
RowsSparse ==
    << Row3(JsStr(Melbourne), JsStr(NotAvailable), JsNull),
       <<[k |-> ColLga, v |-> JsStr(Bangs)], [k |-> ColExp, v |-> JsNum(4)]>>,
       Row3(JsStr(<<" "," ">>), JsNum(9), JsNum(9)),
       Row3(JsNull, JsNum(1), JsNum(1)),
       Row3(JsStr(Yarra), JsNaN, JsStr(<<" ">>)) >>

RowsEmpty == <<>>

FileA == <<"a",".","x","l","s","x">>

FileB == <<"b",".","c","s","v">>

FileC == <<"c",".","X","L","S">>

FileE == <<"e",".","c","s","v">>

Tables ==
    { [name |-> FileA, rows |-> RowsNumeric],
      [name |-> FileB, rows |-> RowsText],
      [name |-> FileC, rows |-> RowsSparse],
      [name |-> FileE, rows |-> RowsEmpty] }

\* the region-column and value-column choices of a mapping
Mappings ==
    { [lgaCol |-> JsStr(ColLga), valueCols |-> <<ColExp>>],
      [lgaCol |-> JsStr(ColLga), valueCols |-> <<ColExp, ColNet>>],
      [lgaCol |-> JsStr(ColLga), valueCols |-> <<ColNet, ColExp>>],
      [lgaCol |-> JsStr(ColLga), valueCols |-> <<>>],
      [lgaCol |-> JsNull,        valueCols |-> <<ColExp>>],
      [lgaCol |-> JsStr(ColExp), valueCols |-> <<ColNet>>] }

FileMappings ==
    { [name |-> t.name, rows |-> t.rows, lgaCol |-> m.lgaCol, valueCols |-> m.valueCols] :
        t \in Tables, m \in Mappings }

Kew == <<"K","e","w">>

\* "Melbourne."
MelbourneDot == <<"M","e","l","b","o","u","r","n","e",".">>

Feature(props) == [hasProps |-> TRUE, properties |-> props]

\* the boundary features the checks draw from
Features ==
    { Feature(<<[k |-> K_LGA_NAME, v |-> JsStr(Yarra)]>>),
      Feature(<<[k |-> K_LGA_NAME, v |-> JsStr(Bangs)], [k |-> K_name, v |-> JsStr(Yarra)]>>),
      Feature(<<[k |-> K_name, v |-> JsStr(Yarra)], [k |-> K_NAME, v |-> JsStr(MelbourneDot)]>>),
      Feature(<<[k |-> K_lga, v |-> JsStr(Kew)]>>),
      Feature(<<[k |-> K_LGA_NAME, v |-> JsStr(<<>>)],
                [k |-> K_LGA_NAME_2021, v |-> JsStr(MELBOURNE)]>>),
      Feature(<<[k |-> K_LGA_NAME, v |-> JsStr(Bangs)]>>),
      [hasProps |-> FALSE, properties |-> <<>>] }

\* the collections, as fetched: no collection-level properties
Geos == {[features |-> fs, properties |-> <<>>] : fs \in SeqsUpTo(Features, MaxFeatures)}

\* the aggregated lists that reach the merge
MergeAggs == {aggregateByLgaWithMapping(fs) : fs \in SeqsUpTo(FileMappings, MaxMergeFiles)}

Row2(lga, exp) == <<[k |-> ColLga, v |-> lga], [k |-> ColExp, v |-> exp]>>

FileN == <<"n",".","t","x","t">>

FileM == <<"m",".","x","l","s">>

\* the files a user uploads: a sheet, a CSV without data rows, a file of an
\* unsupported type and a sheet the decoder cannot read
UploadFiles ==
    { [name |-> FileA, readable |-> TRUE,
       rows |-> <<Row2(JsStr(Yarra), JsNum(7)), Row2(JsStr(YARRA), JsNum(3))>>],
      [name |-> FileB, readable |-> TRUE, rows |-> <<>>],
      [name |-> FileN, readable |-> TRUE, rows |-> <<>>],
      [name |-> FileM, readable |-> FALSE, rows |-> <<>>] }

\* the base collections a fetch returns
BaseGeos ==
    { [features |-> << Feature(<<[k |-> K_LGA_NAME, v |-> JsStr(Yarra)]>>),
                       Feature(<<[k |-> K_lga, v |-> JsStr(Kew)]>>) >>,
       properties |-> <<>>] }

----------------------------------------------------------------------------
(* The argument strings of the normalization checks. *)

GreaterGeelong ==
    <<"G","r","e","a","t","e","r"," ","G","e","e","l","o","n","g">>

GreaterGeelongOneSpace ==
    <<"G","R","E","A","T","E","R"," ","G","E","E","L","O","N","G","!","!">>

GreaterGeelongThreeSpaces ==
    <<"G","R","E","A","T","E","R"," "," "," ","G","E","E","L","O","N","G","!","!">>

GREATER_GEELONG ==
    <<"G","R","E","A","T","E","R"," ","G","E","E","L","O","N","G">>

NormAlphabet == {"a", "A", "1", " ", "!", "\t"}

NormInputs ==
    {JsStr(q) : q \in SeqsUpTo(NormAlphabet, MaxLen)}
        \cup {JsStr(GreaterGeelong), JsStr(GreaterGeelongOneSpace),
              JsStr(GreaterGeelongThreeSpaces)}
        \cup {JsNull, JsUndefined, JsNaN, JsNum(0), JsNum(42)}

----------------------------------------------------------------------------
(* parseFile and the App component's handlers.                             *)

LowerCharOf == [ch \in Range(Upper) |-> Lower[CHOOSE i \in DOMAIN Upper : Upper[i] = ch]]

\* String.prototype.toLowerCase (ASCII letters)
toLowerCase(str) ==
    [i \in DOMAIN str |-> IF str[i] \in DOMAIN LowerCharOf THEN LowerCharOf[str[i]] ELSE str[i]]

\* String.prototype.includes, and a regular expression that is one literal
Includes(str, sub) ==
    \E i \in 1..(Len(str) - Len(sub) + 1) : SubSeq(str, i, i + Len(sub) - 1) = sub

\* String.prototype.startsWith
StartsWith(str, prefix) ==
    Len(prefix) <= Len(str) /\ SubSeq(str, 1, Len(prefix)) = prefix

\* file.name.toLowerCase().split('.').pop()
ExtOf(name) ==
    LET lower == toLowerCase(name)
        dots  == {i \in DOMAIN lower : lower[i] = "."}
    IN  IF dots = {} THEN lower
        ELSE SubSeq(lower, (CHOOSE i \in dots : \A j \in dots : j <= i) + 1, Len(lower))

\* parseFile(file): the rows, or the rejection.  A file is [name, readable, rows];
\* the decoders (Papa.parse, XLSX.read) fail on a file that is not readable
parseFile(file) ==
    LET ext == ExtOf(file.name)
    IN  IF ext = <<"c","s","v">>
        THEN IF file.readable THEN [ok |-> TRUE, rows |-> file.rows]
             ELSE [ok |-> FALSE, rows |-> <<>>]
        ELSE IF ext \in {<<"x","l","s">>, <<"x","l","s","x">>}
        THEN IF file.readable THEN [ok |-> TRUE, rows |-> file.rows]
             ELSE [ok |-> FALSE, rows |-> <<>>]
        ELSE [ok |-> FALSE, rows |-> <<>>]

\* Object.keys(rows[0] || {})
ColsOf(rows) == IF rows = <<>> THEN <<>> ELSE Keys(rows[1])

\* /lga/i.test(c)
TestLga(c) == Includes(toLowerCase(c), <<"l","g","a">>)

ValueWords ==
    { <<"e","x","p">>, <<"l","o","s","s">>, <<"a","m","o","u","n","t">>,
      <<"v","a","l","u","e">>, <<"n","e","t">>, <<"t","o","t","a","l">> }

\* /(exp|loss|amount|value|net|total)/i.test(c)
TestValueWord(c) == \E w \in ValueWords : Includes(toLowerCase(c), w)

\* rows.some(r => typeof r[c] === 'number')
IsNumCol(rows, c) == \E i \in DOMAIN rows : Get(rows[i], c).t \in {"number", "nan"}

\* onUpload: the mapping seeded for one parsed file
SeedMapping(name, rows) ==
    LET cols == ColsOf(rows)
        IsLga(c) == TestLga(c)
        lgas == SelectSeq(cols, IsLga)
        lgaGuess == IF lgas # <<>> /\ lgas[1] # <<>> THEN JsStr(lgas[1]) ELSE JsNull
        IsNum(c) == IsNumCol(rows, c)
        numCols == SelectSeq(cols, IsNum)
        valueGuess == SelectSeq(numCols, TestValueWord)
    IN  [name |-> name, rows |-> rows, lgaCol |-> lgaGuess,
         valueCols |-> IF valueGuess # <<>> THEN valueGuess
                       ELSE IF numCols # <<>> /\ numCols[1] # <<>> THEN <<numCols[1]>>
                       ELSE <<>>]

\* the dependencies of useCallback(process): [baseGeo, files] in the web App,
\* [baseGeo, fileMaps] in the root App.  The callback is made anew, and captures
\* the fileMaps of that render, when a dependency changed.
Captured(baseChanged, filesChanged, mapsChanged, newMaps) ==
    IF baseChanged \/ (app = "web" /\ filesChanged) \/ (app = "root" /\ mapsChanged)
    THEN newMaps
    ELSE procMaps

StatusLoading == "Loading base GeoJSON..."

StatusLoaded == "Loaded base GeoJSON"

StatusLoadFailed(msg) == "Failed to load GeoJSON: " \o msg

StatusParsing == "Parsing uploaded files..."

StatusFilesReady == "Files ready. Review column mapping below."

StatusNeedBase == "Load base GeoJSON first"

StatusNeedFiles ==
    IF app = "web" THEN "Please upload and map at least one file"
    ELSE "Upload and map at least one file"

StatusReady == "Ready"

\* the message of a failed fetch of the base collection
LoadErrors == {"Failed to fetch"}

\* the first key of the first feature's properties that starts with metric_, or ''
FirstMetric(geo) ==
    LET IsMetric(key) == StartsWith(key, <<"m","e","t","r","i","c","_">>)
        keys == IF geo.features = <<>> THEN <<>>
                ELSE SelectSeq(Keys(PropsOf(geo.features[1])), IsMetric)
    IN  IF keys = <<>> THEN <<>> ELSE keys[1]

----------------------------------------------------------------------------
(* Column detection: detectLgaColumn and detectValueColumns.               *)

\* the fixed priority list of detectLgaColumn
candidates ==
    << <<"L","G","A","_","N","A","M","E">>,
       <<"L","G","A">>,
       <<"L","G","A"," ","N","a","m","e">>,
       <<"L","G","A","_","N","A","M","E","_","2","0","2","1">>,
       <<"L","o","c","a","l"," ","G","o","v","e","r","n","m","e","n","t"," ","A","r","e","a">>,
       <<"L","G"," ","A">>,
       <<"l","g","a">>,
       <<"l","g","a","_","n","a","m","e">>,
       <<"n","a","m","e">>,
       <<"L","G","A","_","N","A","M","E","_","2","0","1","6">>,
       <<"A","R","E","A","_","N","A","M","E">> >>

\* detectLgaColumn(rows): the column as a string value, or null
detectLgaColumn(rows) ==
    IF rows = <<>> THEN JsNull
    ELSE LET cols == Keys(rows[1])
             IsCol(c) == c \in Range(cols)
             exact == SelectSeq(candidates, IsCol)
             IsLga(c) == Includes(toLowerCase(c), K_lga)
             loose == SelectSeq(cols, IsLga)
         IN  IF exact # <<>> THEN JsStr(exact[1])
             ELSE IF loose # <<>> THEN JsStr(loose[1])
             ELSE JsNull

\* detectValueColumns(rows)
detectValueColumns(rows) ==
    IF rows = <<>> THEN <<>>
    ELSE LET cols == Keys(rows[1])
             isNumCol(c) == \E i \in DOMAIN rows : Get(rows[i], c).t \in {"number", "nan"}
             numeric == SelectSeq(cols, isNumCol)
             priority == SelectSeq(numeric, TestValueWord)
         IN  IF priority # <<>> THEN priority
             ELSE IF numeric # <<>> THEN <<numeric[1]>>
             ELSE <<>>

K_lga_code == <<"l","g","a","_","c","o","d","e">>

\* the headers of the generated tables: one that only contains "lga", two of the
\* priority list, one of the value vocabulary
DetectHeaders == {K_lga_code, K_LGA_NAME, K_name, ColExp}

\* the cells of the generated tables
DetectCells == {JsStr(Yarra), JsNum(5), JsNaN}

\* the rows of at most MaxCols cells, each under a header of its own
DetectRows ==
    LET headers == {h \in SeqsUpTo(DetectHeaders, MaxCols) :
                       \A i, j \in DOMAIN h : i # j => h[i] # h[j]}
    IN  UNION { {[i \in DOMAIN h |-> [k |-> h[i], v |-> cells[i]]] :
                    cells \in [DOMAIN h -> DetectCells]} : h \in headers }

\* the tables of at most MaxRows rows
DetectTables == SeqsUpTo(DetectRows, MaxRows)

----------------------------------------------------------------------------
(* Specification SpecNorm: normalizeName applied to one argument. *)

NormIdle == nIn = JsUndefined /\ nOut = <<>> /\ nPc = "idle"

AggIdle == aIn = <<>> /\ aOut = <<>> /\ aPc = "idle"

MergeIdle ==
    /\ mGeo = EmptyGeo /\ mAgg = <<>> /\ mOut = EmptyGeo /\ mVia = <<>> /\ mPc = "idle"

\* the App component is not mounted
AppIdle ==
    /\ app = "none"
    /\ baseGeo = [loaded |-> FALSE, geo |-> EmptyGeo]
    /\ fileMaps = <<>>
    /\ procMaps = <<>>
    /\ status = ""
    /\ enriched = [set |-> FALSE, geo |-> EmptyGeo]
    /\ metric = <<>>
    /\ uploads = 0
    /\ loading = 0
    /\ aggIn = [called |-> FALSE, files |-> <<>>]
    /\ lastOp = "none"

\* column detection is not running
DetectIdle ==
    /\ dRows = <<>>
    /\ dLga = JsNull
    /\ dVals = <<>>
    /\ dSeed = SeedMapping(<<>>, <<>>)
    /\ dDone = {}

InitNorm ==
    /\ nIn \in NormInputs /\ nOut = <<>> /\ nPc = "ready"
    /\ AggIdle
    /\ MergeIdle
    /\ AppIdle
    /\ DetectIdle

Normalize ==
    /\ nPc = "ready"
    /\ nOut' = normalizeName(nIn)
    /\ nPc' = "done"
    /\ UNCHANGED <<nIn, aggVars, mergeVars, appVars, detectVars>>

NextNorm == Normalize

SpecNorm == InitNorm /\ [][NextNorm]_vars

----------------------------------------------------------------------------
(* Properties of normalizeName. *)

\* "GREATER   GEELONG": the three spaces kept
GREATER_3_GEELONG ==
    <<"G","R","E","A","T","E","R"," "," "," ","G","E","E","L","O","N","G">>

IsPlainChar(ch) == ch \in Range(Lower) \cup Range(Upper) \cup Range(Digits) \cup {" "}

\* the string in lower case with every character but letters, digits and spaces removed
Plain(str) ==
    LET kept == SelectSeq(str, IsPlainChar)
    IN  [i \in DOMAIN kept |-> IF kept[i] \in DOMAIN LowerCharOf THEN LowerCharOf[kept[i]] ELSE kept[i]]

\* C6 as stated: normalize("Greater Geelong") and normalize("GREATER   GEELONG!!"),
\* three spaces between the words, are both exactly "GREATER GEELONG".
C6_Original ==
    nPc = "done" /\ nIn \in {JsStr(GreaterGeelong), JsStr(GreaterGeelongThreeSpaces)}
        => nOut = GREATER_GEELONG

\* C6 amended: normalizeName is case- and punctuation-insensitive (a string and its
\* lower-case, punctuation-free form have the same key), so "Greater Geelong" and
\* "GREATER GEELONG!!" both give "GREATER GEELONG"; spaces inside the name are kept
\* as they are, so "GREATER   GEELONG!!" gives "GREATER   GEELONG".
C6_CaseAndPunctuationInsensitive ==
    nPc = "done" =>
        /\ nIn \in {JsStr(GreaterGeelong), JsStr(GreaterGeelongOneSpace)}
              => nOut = GREATER_GEELONG
        /\ nIn = JsStr(GreaterGeelongThreeSpaces) => nOut = GREATER_3_GEELONG
        /\ nIn.t = "string" => nOut = normalizeName(JsStr(Plain(nIn.s)))

\* C6 witness: "GREATER   GEELONG!!" has been normalized, to a key with three spaces.
C6_Witness ==
    /\ nPc = "done"
    /\ nIn = JsStr(GreaterGeelongThreeSpaces)
    /\ nOut = GREATER_3_GEELONG

\* C12: normalizeName is total and idempotent: for every argument, null, undefined
\* and numbers included, it returns a string of the characters A-Z, 0-9 and space
\* only, with no space first or last, and normalizing that string gives it back.
C12_IdempotentAndTotal ==
    nPc = "done" =>
        /\ nOut \in Seq(KeyChars)
        /\ nOut # <<>> => (nOut[1] # " " /\ nOut[Len(nOut)] # " ")
        /\ normalizeName(JsStr(nOut)) = nOut

\* C12 witness: "! a" has been normalized; the space that removing "!" leaves in
\* front is trimmed, and the key is "A".
C12_Witness ==
    /\ nPc = "done"
    /\ nIn = JsStr(<<"!", " ", "a">>)
    /\ nOut = <<"A">>

----------------------------------------------------------------------------
(* Specification SpecAgg: aggregateByLgaWithMapping applied to one list of *)
(* file mappings.                                                          *)

InitAgg ==
    /\ aIn \in SeqsUpTo(FileMappings, MaxFiles)
    /\ aOut = <<>>
    /\ aPc = "ready"
    /\ NormIdle
    /\ MergeIdle
    /\ AppIdle
    /\ DetectIdle

Aggregate ==
    /\ aPc = "ready"
    /\ aOut' = aggregateByLgaWithMapping(aIn)
    /\ aPc' = "done"
    /\ UNCHANGED <<aIn, normVars, mergeVars, appVars, detectVars>>

NextAgg == Aggregate

SpecAgg == InitAgg /\ [][NextAgg]_vars

----------------------------------------------------------------------------
(* Properties of aggregateByLgaWithMapping. *)

RECURSIVE SumFn(_)
\* the sum of a function's values over its finite domain
SumFn(f) ==
    IF DOMAIN f = {} THEN 0
    ELSE LET x == CHOOSE x \in DOMAIN f : TRUE
         IN  f[x] + SumFn([y \in DOMAIN f \ {x} |-> f[y]])

\* a file the aggregation reads: region column set, a value column chosen
IsMapped(f) == Truthy(f.lgaCol) /\ f.valueCols # <<>>

\* the trimmed region name of a row, empty when the cell is null or absent
RegionName(f, row) ==
    LET raw == Get(row, f.lgaCol.s)
    IN  IF raw.t \in {"null", "undefined"} THEN <<>> ELSE trim(String(raw))

\* the rows of the mapped files, as <<file index, row index>>, that have a name
NamedRows(files) ==
    { p \in UNION {{<<fi, ri>> : ri \in DOMAIN files[fi].rows} : fi \in DOMAIN files} :
        /\ IsMapped(files[p[1]])
        /\ RegionName(files[p[1]], files[p[1]].rows[p[2]]) # <<>> }

\* the normalized key of a named row
KeyOfRow(files, p) ==
    normalizeName(JsStr(RegionName(files[p[1]], files[p[1]].rows[p[2]])))

\* the named rows whose region name normalizes to key
RowsOfKey(files, key) == {p \in NamedRows(files) : KeyOfRow(files, p) = key}

\* the cell of row p in the value column at position pos, coerced
CellAt(files, p, pos) ==
    Number(Get(files[p[1]].rows[p[2]], files[p[1]].valueCols[pos]))

\* the rows of key whose cell at position pos is a finite number
FiniteRows(files, key, pos) ==
    { p \in RowsOfKey(files, key) :
        pos <= Len(files[p[1]].valueCols) /\ IsFinite(CellAt(files, p, pos)) }

\* the sum of the finite cells at position pos over the rows of key
SlotSum(files, key, pos) ==
    SumFn([p \in FiniteRows(files, key, pos) |-> CellAt(files, p, pos).v])

\* the keys of every named row of every mapped file
RegionKeys(files) == {KeyOfRow(files, p) : p \in NamedRows(files)}

\* the positions a value column has in some file
Slots(files) == UNION {DOMAIN files[fi].valueCols : fi \in DOMAIN files}

\* the value of metric_pos in a bucket, 0 when the bucket has no such entry
MetricOrZero(bucket, pos) ==
    IF HasKey(bucket.metrics, MetricKey(pos)) THEN Get(bucket.metrics, MetricKey(pos)).v ELSE 0

\* C2: aggregateByLgaWithMapping returns exactly one bucket per distinct
\* normalized region key of the named rows of the mapped files, and in each bucket
\* metric_pos is the sum of the finite cells at value-column position pos over
\* all rows, of every mapped file, whose region name normalizes to the bucket's key.
C2_OneBucketPerKeyWithSums ==
    aPc = "done" =>
        /\ \A i, j \in DOMAIN aOut : aOut[i].key = aOut[j].key => i = j
        /\ {aOut[i].key : i \in DOMAIN aOut} = RegionKeys(aIn)
        /\ \A i \in DOMAIN aOut :
              /\ Range(Keys(aOut[i].metrics)) \subseteq {MetricKey(pos) : pos \in Slots(aIn)}
              /\ \A pos \in Slots(aIn) :
                    MetricOrZero(aOut[i], pos) = SlotSum(aIn, aOut[i].key, pos)

\* C2 witness: rows "Melbourne" = 10 and "MELBOURNE" = 5 of one file gave the single
\* bucket MELBOURNE with metric_1 = 15.
C2_Witness ==
    /\ aPc = "done"
    /\ Len(aIn) = 1
    /\ aIn[1].rows = RowsNumeric
    /\ aIn[1].lgaCol = JsStr(ColLga)
    /\ aIn[1].valueCols = <<ColExp>>
    /\ Len(aOut) = 1
    /\ aOut[1].key = MELBOURNE
    /\ aOut[1].metrics = <<[k |-> MetricKey(1), v |-> JsNum(15)]>>

\* a cell that holds a number: a number other than NaN, or text that is not blank
\* and reads as a number
HoldsNumber(cell) ==
    \/ cell.t = "number"
    \/ cell.t = "string" /\ trim(cell.s) # <<>> /\ IsFinite(Number(cell))

\* C3 as stated: a cell that is not a finite number (non-numeric text, NaN, an empty,
\* blank or null cell) is skipped: every metric entry of a bucket comes from
\* at least one row of its key whose cell at that position holds a number, and its
\* value is the sum over the cells that hold numbers.
C3_Original ==
    aPc = "done" =>
        \A i \in DOMAIN aOut : \A pos \in Slots(aIn) :
            LET holding == { p \in RowsOfKey(aIn, aOut[i].key) :
                               /\ pos <= Len(aIn[p[1]].valueCols)
                               /\ HoldsNumber(Get(aIn[p[1]].rows[p[2]],
                                                  aIn[p[1]].valueCols[pos])) }
            IN  /\ HasKey(aOut[i].metrics, MetricKey(pos)) => holding # {}
                /\ MetricOrZero(aOut[i], pos)
                     = SumFn([p \in holding |-> CellAt(aIn, p, pos).v])

\* the sum of the finite cells of one file at position pos over its rows of key
FileSlotSum(files, fi, key, pos) ==
    SumFn([p \in {q \in FiniteRows(files, key, pos) : q[1] = fi}
             |-> CellAt(files, p, pos).v])

\* C7: metric slots are positional and shared across files: in every bucket,
\* metric_pos is the sum, over the mapped files, of each file's own total of its
\* pos-th value column for that region, whatever the columns' header names.
C7_SlotsSharedAcrossFiles ==
    aPc = "done" /\ Len(aIn) >= 2 =>
        \A i \in DOMAIN aOut : \A pos \in Slots(aIn) :
            MetricOrZero(aOut[i], pos)
              = SumFn([fi \in DOMAIN aIn |-> FileSlotSum(aIn, fi, aOut[i].key, pos)])

\* C7 witness: two files whose first value columns have different headers (Exp, Net)
\* both hold region YARRA, with first-column totals 7 and 3, and metric_1 = 10.
C7_Witness ==
    /\ aPc = "done"
    /\ Len(aIn) = 2
    /\ aIn[1].rows = RowsText /\ aIn[2].rows = RowsText
    /\ aIn[1].lgaCol = JsStr(ColLga) /\ aIn[2].lgaCol = JsStr(ColLga)
    /\ aIn[1].valueCols = <<ColExp>>
    /\ aIn[2].valueCols = <<ColNet, ColExp>>
    /\ FileSlotSum(aIn, 1, YARRA, 1) = 7
    /\ FileSlotSum(aIn, 2, YARRA, 1) = 3
    /\ \E i \in DOMAIN aOut : aOut[i].key = YARRA /\ MetricOrZero(aOut[i], 1) = 10

----------------------------------------------------------------------------
(* Specification SpecMerge: mergeMetricsIntoGeoJSON applied to one         *)
(* collection and one aggregated list.                                     *)

InitMerge ==
    /\ mGeo \in Geos
    /\ mAgg \in MergeAggs
    /\ mOut = EmptyGeo
    /\ mVia = <<>>
    /\ mPc = "ready"
    /\ NormIdle
    /\ AggIdle
    /\ AppIdle
    /\ DetectIdle

Merge ==
    /\ mPc = "ready"
    /\ mOut' = mergeMetricsIntoGeoJSON(mGeo, mAgg)
    /\ mVia' = [i \in DOMAIN mGeo.features |-> KeyVia(PropsOf(mGeo.features[i]))]
    /\ mPc' = "done"
    /\ UNCHANGED <<mGeo, mAgg, normVars, aggVars, appVars, detectVars>>

NextMerge == Merge

SpecMerge == InitMerge /\ [][NextMerge]_vars

----------------------------------------------------------------------------
(* Properties of mergeMetricsIntoGeoJSON. *)

\* the name of a feature: its first present, non-empty candidate property
HasName(props) == TruthyFields(props) # {}

NameField(props) ==
    nameFields[CHOOSE i \in TruthyFields(props) : \A j \in TruthyFields(props) : i <= j]

NameKey(props) == normalizeName(Get(props, NameField(props)))

\* the features whose name normalizes to the key of a bucket
Matched(geo, agg) ==
    { i \in DOMAIN geo.features :
        /\ HasName(PropsOf(geo.features[i]))
        /\ LookupHas(agg, NameKey(PropsOf(geo.features[i]))) }

\* the features that received a property they did not have
Received(geo, out) ==
    { i \in DOMAIN geo.features :
        Range(Keys(out.features[i].properties))
            # Range(Keys(PropsOf(geo.features[i]))) }

\* C4 as stated: after merge a feature holds a bucket's metric fields if and only
\* if its name normalizes to that bucket's key; a feature whose name has no bucket
\* gets no field, counts in _total_features (the number of features) and does not
\* count in _attached_count.
C4_Original ==
    mPc = "done" =>
        /\ \A i \in DOMAIN mGeo.features :
              LET props == PropsOf(mGeo.features[i])
              IN  mOut.features[i].properties
                    = IF i \in Matched(mGeo, mAgg)
                      THEN ObjectAssign(props, LookupGet(mAgg, NameKey(props)).metrics)
                      ELSE props
        /\ Get(mOut.properties, K_total_features) = JsNum(Len(mGeo.features))
        /\ Get(mOut.properties, K_attached_count).v <= Cardinality(Matched(mGeo, mAgg))

\* C5 as stated: _attached_count is the number of features that received at least
\* one metric field (a feature matched to a bucket with no metrics is not
\* counted), and _total_features is the number of features.
C5_Original ==
    mPc = "done" =>
        /\ Get(mOut.properties, K_attached_count)
              = JsNum(Cardinality(Received(mGeo, mOut)))
        /\ Get(mOut.properties, K_total_features) = JsNum(Len(mGeo.features))

\* C8 as stated: the name merge uses is the first present non-empty candidate
\* property; once one is present no later candidate and no name fallback is
\* consulted; a feature with no candidate is left as it was.
C8_Original ==
    mPc = "done" =>
        \A i \in DOMAIN mGeo.features :
            LET props == PropsOf(mGeo.features[i])
            IN  IF HasName(props)
                THEN mVia[i] = [by |-> "nameFields", field |-> NameField(props)]
                ELSE /\ mVia[i].by = "none"
                     /\ mOut.features[i].properties = props

----------------------------------------------------------------------------
(* Specification Spec: the App component.  Each action is one handler, or  *)
(* the continuation of an async handler after its await; the re-render     *)
(* that follows the handler's state updates is part of the action.         *)

Init ==
    /\ app \in {"web", "root"}
    /\ baseGeo = [loaded |-> FALSE, geo |-> EmptyGeo]
    /\ fileMaps = <<>>
    /\ procMaps = <<>>
    /\ status = ""
    /\ enriched = [set |-> FALSE, geo |-> EmptyGeo]
    /\ metric = <<>>
    /\ uploads = 0
    /\ loading = 0
    /\ aggIn = [called |-> FALSE, files |-> <<>>]
    /\ lastOp = "none"
    /\ NormIdle
    /\ AggIdle
    /\ MergeIdle
    /\ DetectIdle

libVars == <<normVars, aggVars, mergeVars, detectVars>>

\* loadBase, up to `await fetch(basePath)`
LoadBase ==
    /\ loading < MaxPendingLoads
    /\ loading' = loading + 1
    /\ status' = StatusLoading
    /\ lastOp' = "other"
    /\ UNCHANGED <<app, baseGeo, fileMaps, procMaps, enriched, metric, uploads, aggIn, libVars>>

\* loadBase, after the fetch and res.json() succeeded
LoadBaseOk ==
    /\ loading > 0
    /\ \E gj \in BaseGeos :
          /\ baseGeo' = [loaded |-> TRUE, geo |-> gj]
          /\ procMaps' = Captured(TRUE, FALSE, FALSE, fileMaps)
    /\ loading' = loading - 1
    /\ status' = StatusLoaded
    /\ lastOp' = "other"
    /\ UNCHANGED <<app, fileMaps, enriched, metric, uploads, aggIn, libVars>>

\* loadBase, the catch block
LoadBaseFail ==
    /\ loading > 0
    /\ \E msg \in LoadErrors : status' = StatusLoadFailed(msg)
    /\ loading' = loading - 1
    /\ lastOp' = "loadBaseFailed"
    /\ UNCHANGED <<app, baseGeo, fileMaps, procMaps, enriched, metric, uploads, aggIn, libVars>>

\* the lists of files of one upload event
UploadLists == SeqsUpTo(UploadFiles, MaxUploadFiles)

\* onUpload, up to `await Promise.all(list.map(parseFile))`; the web App also
\* calls setFiles(list).  Nothing reads the list before the await settles, so
\* the pending calls are counted and each call's list is drawn when it settles.
Upload ==
    /\ uploads < MaxPendingUploads
    /\ uploads' = uploads + 1
    /\ status' = StatusParsing
    /\ procMaps' = Captured(FALSE, TRUE, FALSE, fileMaps)
    /\ lastOp' = "other"
    /\ UNCHANGED <<app, baseGeo, fileMaps, enriched, metric, loading, aggIn, libVars>>

\* onUpload, after every parseFile promise fulfilled
UploadParsed ==
    /\ uploads > 0
    /\ \E list \in UploadLists :
          LET next == [j \in DOMAIN list |->
                          SeedMapping(list[j].name, parseFile(list[j]).rows)]
          IN  /\ \A j \in DOMAIN list : parseFile(list[j]).ok
              /\ fileMaps' = next
              /\ procMaps' = Captured(FALSE, FALSE, TRUE, next)
    /\ status' = StatusFilesReady
    /\ uploads' = uploads - 1
    /\ lastOp' = "other"
    /\ UNCHANGED <<app, baseGeo, enriched, metric, loading, aggIn, libVars>>

\* onUpload, when a parseFile promise rejected: Promise.all rejects, the await
\* throws, and nothing catches it
UploadRejected ==
    /\ uploads > 0
    /\ \E list \in UploadLists : \E j \in DOMAIN list : ~parseFile(list[j]).ok
    /\ uploads' = uploads - 1
    /\ lastOp' = "uploadRejected"
    /\ UNCHANGED <<app, baseGeo, fileMaps, procMaps, status, enriched, metric, loading,
                   aggIn, libVars>>

\* the onChange handler of a file's LGA column select
EditLgaCol ==
    \E idx \in DOMAIN fileMaps :
        \E choice \in Range(ColsOf(fileMaps[idx].rows)) \cup {<<>>} :
            LET next == [fileMaps EXCEPT ![idx].lgaCol =
                            IF choice = <<>> THEN JsNull ELSE JsStr(choice)]
            IN  /\ fileMaps' = next
                /\ procMaps' = Captured(FALSE, FALSE, TRUE, next)
                /\ lastOp' = "other"
                /\ UNCHANGED <<app, baseGeo, status, enriched, metric, uploads, loading,
                               aggIn, libVars>>

\* the onChange handler of a file's value column select: the selected options,
\* in the order of the columns
EditValueCols ==
    \E idx \in DOMAIN fileMaps :
        \E chosen \in SUBSET Range(ColsOf(fileMaps[idx].rows)) :
            LET IsChosen(c) == c \in chosen
                next == [fileMaps EXCEPT ![idx].valueCols =
                            SelectSeq(ColsOf(fileMaps[idx].rows), IsChosen)]
            IN  /\ fileMaps' = next
                /\ procMaps' = Captured(FALSE, FALSE, TRUE, next)
                /\ lastOp' = "other"
                /\ UNCHANGED <<app, baseGeo, status, enriched, metric, uploads, loading,
                               aggIn, libVars>>

\* the variant of process that runs the column detection of onUpload again on
\* every file before it aggregates
ProcessRedetecting ==
    LET again == [i \in DOMAIN fileMaps |->
                     SeedMapping(fileMaps[i].name, fileMaps[i].rows)]
    IN  /\ lastOp' = "process"
        /\ fileMaps' = again
        /\ procMaps' = again
        /\ IF ~baseGeo.loaded
           THEN /\ status' = StatusNeedBase
                /\ aggIn' = [called |-> FALSE, files |-> <<>>]
                /\ UNCHANGED <<enriched, metric>>
           ELSE IF again = <<>>
           THEN /\ status' = StatusNeedFiles
                /\ aggIn' = [called |-> FALSE, files |-> <<>>]
                /\ UNCHANGED <<enriched, metric>>
           ELSE LET merged == mergeMetricsIntoGeoJSON(baseGeo.geo,
                                  aggregateByLgaWithMapping(again))
                IN  /\ aggIn' = [called |-> TRUE, files |-> again]
                    /\ enriched' = [set |-> TRUE, geo |-> merged]
                    /\ metric' = FirstMetric(merged)
                    /\ status' = StatusReady
        /\ UNCHANGED <<app, baseGeo, uploads, loading, libVars>>

\* the variant of process that merges into baseGeo itself, without structuredClone:
\* the collection held as baseGeo is the one merge has written to
ProcessInPlace ==
    /\ lastOp' = "process"
    /\ IF ~baseGeo.loaded
       THEN /\ status' = StatusNeedBase
            /\ aggIn' = [called |-> FALSE, files |-> <<>>]
            /\ UNCHANGED <<baseGeo, enriched, metric>>
       ELSE IF procMaps = <<>>
       THEN /\ status' = StatusNeedFiles
            /\ aggIn' = [called |-> FALSE, files |-> <<>>]
            /\ UNCHANGED <<baseGeo, enriched, metric>>
       ELSE LET merged == mergeMetricsIntoGeoJSON(baseGeo.geo,
                              aggregateByLgaWithMapping(procMaps))
            IN  /\ aggIn' = [called |-> TRUE, files |-> procMaps]
                /\ baseGeo' = [loaded |-> TRUE, geo |-> merged]
                /\ enriched' = [set |-> TRUE, geo |-> merged]
                /\ metric' = FirstMetric(merged)
                /\ status' = StatusReady
    /\ UNCHANGED <<app, fileMaps, procMaps, uploads, loading, libVars>>

\* process: the callback sees the baseGeo of the last render (a dependency in both
\* Apps) and the fileMaps it captured
Process ==
    /\ lastOp' = "process"
    /\ IF ~baseGeo.loaded
       THEN /\ status' = StatusNeedBase
            /\ aggIn' = [called |-> FALSE, files |-> <<>>]
            /\ UNCHANGED <<enriched, metric>>
       ELSE IF procMaps = <<>>
       THEN /\ status' = StatusNeedFiles
            /\ aggIn' = [called |-> FALSE, files |-> <<>>]
            /\ UNCHANGED <<enriched, metric>>
       ELSE LET agg    == aggregateByLgaWithMapping(procMaps)
                merged == mergeMetricsIntoGeoJSON(baseGeo.geo, agg)
            IN  /\ aggIn' = [called |-> TRUE, files |-> procMaps]
                /\ enriched' = [set |-> TRUE, geo |-> merged]
                /\ metric' = FirstMetric(merged)
                /\ status' = StatusReady
    /\ UNCHANGED <<app, baseGeo, fileMaps, procMaps, uploads, loading, libVars>>

\* the onChange handler of the metric select
SetMetric ==
    /\ enriched.set
    /\ enriched.geo.features # <<>>
    /\ \E key \in Range(Keys(PropsOf(enriched.geo.features[1]))) :
          /\ StartsWith(key, <<"m","e","t","r","i","c","_">>)
          /\ metric' = key
    /\ lastOp' = "other"
    /\ UNCHANGED <<app, baseGeo, fileMaps, procMaps, status, enriched, uploads, loading,
                   aggIn, libVars>>

Next ==
    \/ LoadBase
    \/ LoadBaseOk
    \/ LoadBaseFail
    \/ Upload
    \/ UploadParsed
    \/ UploadRejected
    \/ EditLgaCol
    \/ EditValueCols
    \/ Process
    \/ SetMetric

Spec == Init /\ [][Next]_vars

----------------------------------------------------------------------------
(* Properties of the App component, checked under Spec. *)

\* a mapping the Aggregator skips: no region column, or no value column
Unmapped(f) == f.lgaCol = JsNull \/ f.valueCols = <<>>

\* C1: whenever Process & Merge has run with a base collection loaded and files
\* uploaded, the Aggregator received the current FileMapping list, with every
\* edit made before the click, and no earlier list.
C1_Original ==
    (lastOp = "process" /\ baseGeo.loaded /\ fileMaps # <<>>)
        => aggIn = [called |-> TRUE, files |-> fileMaps]

\* C9: when Process & Merge has run on the current mapping list and a file of it
\* has its region column unset or its value-column set empty, the run does not
\* end with the plain success status 'Ready'.
C9_Original ==
    ( /\ lastOp = "process"
      /\ aggIn = [called |-> TRUE, files |-> fileMaps]
      /\ \E i \in DOMAIN fileMaps : Unmapped(fileMaps[i]) )
        => status # StatusReady

\* C10: after an upload in which a file failed to decode the status is no longer
\* the in-progress text 'Parsing uploaded files...', and after a failed load of
\* the base collection it is no longer 'Loading base GeoJSON...'.
C10_Original ==
    /\ lastOp = "uploadRejected" => status # StatusParsing
    /\ lastOp = "loadBaseFailed" => status # StatusLoading

\* the mapping differs from the one column detection seeded for its rows: only a
\* user's edit makes it so
Edited(f) == f # SeedMapping(f.name, f.rows)

\* C11: the mapping list, and so every edited file's region column and value
\* columns, is changed only by a user's edit of a mapping or by an upload that
\* replaces the list; Process & Merge, the loading of the base collection and
\* every other step leave it as it is, so detection is never run again on it.
C11_MappingsChangeOnlyByEditOrUpload ==
    [][ fileMaps' # fileMaps => (EditLgaCol \/ EditValueCols \/ UploadParsed) ]_vars

\* C11 witness: Process & Merge has run while a file's mapping was an edited one,
\* and the mapping is still the edited one.
C11_Witness ==
    /\ lastOp = "process"
    /\ baseGeo.loaded
    /\ \E i \in DOMAIN fileMaps : Edited(fileMaps[i])

IsMetricKey(key) == StartsWith(key, <<"m","e","t","r","i","c","_">>)

\* the collection has a feature with a metric_N field
HasMetricField(geo) ==
    \E i \in DOMAIN geo.features :
        \E key \in Range(Keys(PropsOf(geo.features[i]))) : IsMetricKey(key)

\* the collection carries the summary of a merge
HasSummary(geo) ==
    HasKey(geo.properties, K_attached_count) \/ HasKey(geo.properties, K_total_features)

\* C15: Process & Merge never modifies the loaded base collection: after any runs
\* its features carry no metric_N field and it has no summary, and the enriched
\* result of a run is the merge of the base collection with the aggregation of
\* that run's mappings, whatever the runs before it were.
C15_BaseCollectionUntouched ==
    /\ ~HasMetricField(baseGeo.geo)
    /\ ~HasSummary(baseGeo.geo)
    /\ aggIn.called =>
          enriched = [set |-> TRUE,
                      geo |-> mergeMetricsIntoGeoJSON(baseGeo.geo,
                                  aggregateByLgaWithMapping(aggIn.files))]

\* C15 witness: Process & Merge has run and attached a metric to a feature of the
\* enriched collection, and the base collection has none.
C15_Witness ==
    /\ lastOp = "process"
    /\ aggIn.called
    /\ HasMetricField(enriched.geo)
    /\ HasSummary(enriched.geo)
    /\ baseGeo.loaded
    /\ ~HasMetricField(baseGeo.geo)

----------------------------------------------------------------------------
(* Specification SpecDetect: the three column detections applied to one    *)
(* table: detectLgaColumn, detectValueColumns and the seeding of onUpload. *)

InitDetect ==
    /\ dRows \in DetectTables
    /\ dLga = JsNull
    /\ dVals = <<>>
    /\ dSeed = SeedMapping(<<>>, <<>>)
    /\ dDone = {}
    /\ NormIdle
    /\ AggIdle
    /\ MergeIdle
    /\ AppIdle

DetectLga ==
    /\ "lga" \notin dDone
    /\ dLga' = detectLgaColumn(dRows)
    /\ dDone' = dDone \cup {"lga"}
    /\ UNCHANGED <<dRows, dVals, dSeed, normVars, aggVars, mergeVars, appVars>>

DetectValues ==
    /\ "values" \notin dDone
    /\ dVals' = detectValueColumns(dRows)
    /\ dDone' = dDone \cup {"values"}
    /\ UNCHANGED <<dRows, dLga, dSeed, normVars, aggVars, mergeVars, appVars>>

\* onUpload's parsed.map callback on the table, as the file a.xlsx
SeedUpload ==
    /\ "seed" \notin dDone
    /\ dSeed' = SeedMapping(FileA, dRows)
    /\ dDone' = dDone \cup {"seed"}
    /\ UNCHANGED <<dRows, dLga, dVals, normVars, aggVars, mergeVars, appVars>>

NextDetect ==
    \/ DetectLga
    \/ DetectValues
    \/ SeedUpload

SpecDetect == InitDetect /\ [][NextDetect]_vars

----------------------------------------------------------------------------
(* Properties of the column detections, checked under SpecDetect. *)

RECURSIVE HeadersOf(_)
\* the headers of a table, each row's new ones after those of the rows before it
HeadersOf(rows) ==
    IF rows = <<>> THEN <<>>
    ELSE LET before == HeadersOf(SubSeq(rows, 1, Len(rows) - 1))
             IsNew(c) == c \notin Range(before)
         IN  before \o SelectSeq(Keys(rows[Len(rows)]), IsNew)

\* some row of the table holds a value of type number under the header
HoldsNumeric(rows, c) == \E i \in DOMAIN rows : Get(rows[i], c).t \in {"number", "nan"}

\* the value columns as the detection is described: of the numeric columns those
\* of the vocabulary, else the first numeric column, else none
DescribedValueColumns(rows) ==
    LET IsNumeric(c) == HoldsNumeric(rows, c)
        numeric == SelectSeq(HeadersOf(rows), IsNumeric)
        matching == SelectSeq(numeric, TestValueWord)
    IN  IF matching # <<>> THEN matching
        ELSE IF numeric # <<>> THEN <<numeric[1]>>
        ELSE <<>>

\* C13: detectValueColumns takes a column as numeric exactly when some row of the
\* table, any row, holds a number in it, and returns the numeric columns of the
\* exp/loss/amount/value/net/total vocabulary, or else the first numeric column,
\* or else the empty list.
C13_Original ==
    "values" \in dDone => dVals = DescribedValueColumns(dRows)

\* C14: the region column the upload handler seeds for a table is the one
\* detectLgaColumn returns for it: the first name of the priority list that is a
\* header, only otherwise the first header containing "lga", otherwise unset.
C14_Original ==
    {"lga", "seed"} \subseteq dDone => dSeed.lgaCol = dLga

====
